---- MODULE Spec2Model ----
(***************************************************************************)
(* Model of product-composer's tree assembly (productcomposer/cli.py):     *)
(* build, create_tree, create_package_set, link_rpms_to_tree,              *)
(* unpack_meta_rpms, the provenance manifest and its report files.         *)
(* PkgSet, Pool and Package live in productcomposer/core and are modelled  *)
(* from the written specification.                                         *)
(*                                                                         *)
(* Python dictionaries are functions: a key is present iff it is in the    *)
(* DOMAIN.  A file name "n-v-r.a.rpm" is the tuple <<n, v, r, a>>, an      *)
(* output path "dir/arch/file" is the tuple <<dir, arch, file>>.           *)
(***************************************************************************)
EXTENDS Naturals, Sequences, FiniteSets, TLC

VARIABLES
    yml,                    \* the parsed product specification
    flavor,                 \* the active flavor, "None" when none is given
    pool,                   \* scanned packages, in scan order
    supportstatus_override, \* name -> status, from supportstatus.txt
    pc,                     \* position in build and create_tree
    requested_archs,        \* history: yml['architectures'] as parse_yaml returned it
    ai,                     \* index of the architecture being processed
    ui,                     \* index of the unpack set being processed
    unit,                   \* state of each architecture's link run
    pkgset,                 \* the evaluated package set being iterated
    si,                     \* number of its Selectors already processed
    missing_package,        \* the local flag of the running function
    sourcedir, debugdir,    \* as set up by create_tree, "None" when unset
    tree,                   \* output paths that exist on disk
    tree_report,            \* output path -> Package
    supportstatus,          \* package name -> status
    out,                    \* what has been printed so far
    linked,                 \* history: link_entry_into_dir calls, in order
    unpacked,               \* history: unpack_one_meta_rpm calls, in order
    reports                 \* report file -> its binary elements, in order

vars == <<yml, flavor, pool, supportstatus_override, pc, requested_archs, ai, ui,
          unit, pkgset, si, missing_package, sourcedir, debugdir, tree,
          tree_report, supportstatus, out, linked, unpacked, reports>>

inputs == <<yml, flavor, pool, supportstatus_override>>

\* Largest number of packages in the pools of the runs that vary the pool.
MaxPool == 2

\* Python's None where a string is expected, and where an object is expected.
None == "None"
NoObject == [none |-> TRUE]

\* The order sorted() gives the package names used here.
NameOrder == <<"a", "a-debuginfo", "a-debugsource", "b", "b-debuginfo", "c">>

(***************************************************************************)
(* Package and Pool                                                        *)
(***************************************************************************)

RpmFile(n, v, r, a) == <<n, v, r, a>>

Rpm(n, v, a, repo, src) ==
    [name |-> n, epoch |-> 0, version |-> v, release |-> 1, arch |-> a,
     location |-> <<repo, RpmFile(n, v, 1, a)>>, sourcerpm |-> src]

SrcRef(n, v) == <<[name |-> n, version |-> v, release |-> 1, arch |-> "src"]>>

\* The packages a repository directory may hold, in scan order.
Catalogue ==
    << Rpm("a", 1, "x86_64", "repos/one", SrcRef("a", 1)),
       Rpm("a", 2, "x86_64", "repos/one", SrcRef("a", 2)),
       Rpm("a", 1, "x86_64", "repos/two", SrcRef("a", 1)),
       Rpm("a", 1, "aarch64", "repos/one", SrcRef("a", 1)),
       Rpm("b", 1, "x86_64", "repos/one", <<>>),
       Rpm("a", 1, "src", "repos/one", <<>>),
       Rpm("a-debuginfo", 1, "x86_64", "repos/one", SrcRef("a", 1)),
       Rpm("a-debugsource", 1, "x86_64", "repos/one", SrcRef("a", 1)),
       Rpm("b-debuginfo", 1, "x86_64", "repos/one", <<>>) >>

RECURSIVE Pick(_, _)
\* The entries of Catalogue whose index is in idx, from position i on.
Pick(idx, i) ==
    IF i > Len(Catalogue) THEN <<>>
    ELSE (IF i \in idx THEN <<Catalogue[i]>> ELSE <<>>) \o Pick(idx, i + 1)

Pools ==
    { Pick(idx, 1) : idx \in { s \in SUBSET (1..Len(Catalogue)) :
                                   Cardinality(s) <= MaxPool } }

basename(location) == location[2]

get_src_package(rpm) ==
    IF rpm.sourcerpm = <<>> THEN NoObject ELSE rpm.sourcerpm[1]

\* 0, 1, 2 as a < b, a = b, a > b on epoch, then version, then release.
EvrCmp(e1, v1, r1, e2, v2, r2) ==
    IF e1 # e2 THEN (IF e1 < e2 THEN 0 ELSE 2)
    ELSE IF v1 # v2 THEN (IF v1 < v2 THEN 0 ELSE 2)
    ELSE IF r1 # r2 THEN (IF r1 < r2 THEN 0 ELSE 2)
    ELSE 1

\* An epoch argument is {} (Python's None) or {e}; a missing epoch counts as 0.
EpochOf(e) == IF e = {} THEN 0 ELSE CHOOSE x \in e : TRUE

Satisfies(p, op, epoch, version, release) ==
    LET c == EvrCmp(p.epoch, p.version, p.release,
                    EpochOf(epoch), version, release)
    IN  CASE op = None -> TRUE
          [] op = "="  -> c = 1
          [] op = "<"  -> c = 0
          [] op = ">"  -> c = 2
          [] op = "<=" -> c \in {0, 1}
          [] op = ">=" -> c \in {1, 2}

Newer(p, q) == EvrCmp(p.epoch, p.version, p.release,
                      q.epoch, q.version, q.release) = 2

RECURSIVE InsertDesc(_, _)
\* p into the descending list s, after the entries that are not older.
InsertDesc(s, p) ==
    IF s = <<>> THEN <<p>>
    ELSE IF Newer(p, Head(s)) THEN <<p>> \o s
    ELSE <<Head(s)>> \o InsertDesc(Tail(s), p)

RECURSIVE SortDesc(_, _)
SortDesc(s, acc) ==
    IF s = <<>> THEN acc ELSE SortDesc(Tail(s), InsertDesc(acc, Head(s)))

lookup_all_rpms(arch, name, op, epoch, version, release) ==
    LET match(p) == /\ p.arch = arch
                    /\ p.name = name
                    /\ Satisfies(p, op, epoch, version, release)
    IN  SortDesc(SelectSeq(pool, match), <<>>)

lookup_rpm(arch, name, op, epoch, version, release) ==
    LET all == lookup_all_rpms(arch, name, op, epoch, version, release)
    IN  IF all = <<>> THEN NoObject ELSE all[1]

(***************************************************************************)
(* Selector and PkgSet                                                     *)
(***************************************************************************)

\* A selector spec "name" or "name op version-release", already tokenised.
PkgSelect(spec, status) ==
    [name |-> spec.name,
     op |-> IF "op" \in DOMAIN spec THEN spec.op ELSE None,
     epoch |-> {},
     version |-> IF "op" \in DOMAIN spec THEN spec.version ELSE 0,
     release |-> IF "op" \in DOMAIN spec THEN spec.release ELSE 0,
     supportstatus |-> status]

PkgSet(name) == [name |-> name, supportstatus |-> None, pkgs |-> <<>>]

Put(f, k, v) == [x \in DOMAIN f \cup {k} |-> IF x = k THEN v ELSE f[x]]

RECURSIVE add_specs(_, _)
\* Insert each spec by name, overwriting a Selector of the same name.
add_specs(s, specs) ==
    IF specs = <<>> THEN s
    ELSE add_specs([s EXCEPT !.pkgs = Put(s.pkgs, Head(specs).name,
                                          PkgSelect(Head(specs), s.supportstatus))],
                   Tail(specs))

\* Union: Selectors already present in self are kept.
PkgSetAdd(s, other) ==
    [s EXCEPT !.pkgs = [n \in DOMAIN s.pkgs \cup DOMAIN other.pkgs |->
                            IF n \in DOMAIN s.pkgs THEN s.pkgs[n] ELSE other.pkgs[n]]]

PkgSetSub(s, other) ==
    [s EXCEPT !.pkgs = [n \in DOMAIN s.pkgs \ DOMAIN other.pkgs |-> s.pkgs[n]]]

PkgSetIntersect(s, other) ==
    [s EXCEPT !.pkgs = [n \in DOMAIN s.pkgs \cap DOMAIN other.pkgs |-> s.pkgs[n]]]

RECURSIVE IterFrom(_, _)
IterFrom(s, i) ==
    IF i > Len(NameOrder) THEN <<>>
    ELSE (IF NameOrder[i] \in DOMAIN s.pkgs THEN <<s.pkgs[NameOrder[i]]>> ELSE <<>>)
         \o IterFrom(s, i + 1)

\* The Selectors of a PkgSet in iteration order.
Iter(s) == IterFrom(s, 1)

(***************************************************************************)
(* create_package_set                                                      *)
(***************************************************************************)

Died(msg) == [ok |-> FALSE, msg |-> msg]

FlavorSkips(entry, fl) ==
    "flavors" \in DOMAIN entry /\ (fl = None \/ fl \notin entry.flavors)

ArchSkips(entry, arch) ==
    "architectures" \in DOMAIN entry /\ arch \notin entry.architectures

IsDict(entry) == "packages" \in DOMAIN entry

RECURSIVE CompatEntries(_, _, _, _)
CompatEntries(entries, arch, fl, s) ==
    IF entries = <<>> THEN s
    ELSE LET entry == Head(entries)
             s1 == IF IsDict(entry)
                   THEN (IF FlavorSkips(entry, fl) \/ ArchSkips(entry, arch)
                         THEN s ELSE add_specs(s, entry.packages))
                   ELSE add_specs(s, <<entry>>)
         IN  CompatEntries(Tail(entries), arch, fl, s1)

\* NoObject where the code returns None.
create_package_set_compat(y, arch, fl, setname) ==
    IF setname \notin {"main", "unpack"} THEN NoObject
    ELSE LET oldname == IF setname = "main" THEN "packages" ELSE "unpack_packages"
         IN  IF oldname \notin DOMAIN y
             THEN (IF setname = "unpack" THEN PkgSet(setname) ELSE NoObject)
             ELSE CompatEntries(y[oldname], arch, fl, PkgSet(setname))

\* Mutant: the subtractions are applied before the unions.
SetOpsSubFirst == <<"sub", "add", "intersect">>

SetOps == <<"add", "sub", "intersect">>

ApplySetOp(setop, s, other) ==
    CASE setop = "add" -> PkgSetAdd(s, other)
      [] setop = "sub" -> PkgSetSub(s, other)
      [] setop = "intersect" -> PkgSetIntersect(s, other)

RECURSIVE EvalOperandsLenient(_, _, _, _)
\* Mutant: an operand that was never declared is taken as an empty set.
EvalOperandsLenient(setop, onames, name, pkgsets) ==
    IF onames = <<>> THEN [ok |-> TRUE, pkgsets |-> pkgsets]
    ELSE LET oname == Head(onames)
             ps1 == IF oname \notin DOMAIN pkgsets \/ pkgsets[oname] = NoObject
                    THEN Put(pkgsets, oname, PkgSet(oname))
                    ELSE pkgsets
             ps2 == [ps1 EXCEPT ![name] = ApplySetOp(setop, ps1[name], ps1[oname])]
         IN  EvalOperandsLenient(setop, Tail(onames), name, ps2)

RECURSIVE EvalOperandsSelfAllowed(_, _, _, _)
\* Mutant: an entry may name its own set as an operand.
EvalOperandsSelfAllowed(setop, onames, name, pkgsets) ==
    IF onames = <<>> THEN [ok |-> TRUE, pkgsets |-> pkgsets]
    ELSE LET oname == Head(onames) IN
         IF oname \notin DOMAIN pkgsets
         THEN Died(<<"package set does not exist", oname>>)
         ELSE LET ps1 == IF pkgsets[oname] = NoObject
                         THEN [pkgsets EXCEPT ![oname] = PkgSet(oname)]
                         ELSE pkgsets
                  ps2 == [ps1 EXCEPT ![name] = ApplySetOp(setop, ps1[name], ps1[oname])]
              IN  EvalOperandsSelfAllowed(setop, Tail(onames), name, ps2)

RECURSIVE EvalOperands(_, _, _, _)
\* for oname in entry[setop]
EvalOperands(setop, onames, name, pkgsets) ==
    IF onames = <<>> THEN [ok |-> TRUE, pkgsets |-> pkgsets]
    ELSE LET oname == Head(onames) IN
         IF oname = name \/ oname \notin DOMAIN pkgsets
         THEN Died(<<"package set does not exist", oname>>)
         ELSE LET ps1 == IF pkgsets[oname] = NoObject
                         THEN [pkgsets EXCEPT ![oname] = PkgSet(oname)]
                         ELSE pkgsets
                  ps2 == [ps1 EXCEPT ![name] = ApplySetOp(setop, ps1[name], ps1[oname])]
              IN  EvalOperands(setop, Tail(onames), name, ps2)

RECURSIVE EvalSetOps(_, _, _, _)
\* for setop in 'add', 'sub', 'intersect'
EvalSetOps(entry, k, name, pkgsets) ==
    IF k > Len(SetOps) THEN [ok |-> TRUE, pkgsets |-> pkgsets]
    ELSE IF SetOps[k] \notin DOMAIN entry THEN EvalSetOps(entry, k + 1, name, pkgsets)
    ELSE LET r == EvalOperands(SetOps[k], entry[SetOps[k]], name, pkgsets)
         IN  IF ~r.ok THEN r ELSE EvalSetOps(entry, k + 1, name, r.pkgsets)

RECURSIVE EvalEntriesAnyDuplicate(_, _, _, _)
\* Mutant: a name declared twice is an error even when the first entry was skipped.
EvalEntriesAnyDuplicate(entries, arch, fl, pkgsets) ==
    IF entries = <<>> THEN [ok |-> TRUE, pkgsets |-> pkgsets]
    ELSE LET entry == Head(entries)
             name == IF "name" \in DOMAIN entry THEN entry.name ELSE "main"
         IN  IF name \in DOMAIN pkgsets
             THEN Died(<<"package set is already defined", name>>)
             ELSE LET ps0 == Put(pkgsets, name, NoObject) IN
                  IF FlavorSkips(entry, fl) \/ ArchSkips(entry, arch)
                  THEN EvalEntriesAnyDuplicate(Tail(entries), arch, fl, ps0)
                  ELSE LET s0 == IF "supportstatus" \in DOMAIN entry
                                 THEN [PkgSet(name) EXCEPT !.supportstatus = entry.supportstatus]
                                 ELSE PkgSet(name)
                           s1 == IF "packages" \in DOMAIN entry /\ entry.packages # <<>>
                                 THEN add_specs(s0, entry.packages)
                                 ELSE s0
                           r == EvalSetOps(entry, 1, name, Put(ps0, name, s1))
                       IN  IF ~r.ok THEN r
                           ELSE EvalEntriesAnyDuplicate(Tail(entries), arch, fl, r.pkgsets)

RECURSIVE EvalEntries(_, _, _, _)
\* for entry in list(yml['packagesets'])
EvalEntries(entries, arch, fl, pkgsets) ==
    IF entries = <<>> THEN [ok |-> TRUE, pkgsets |-> pkgsets]
    ELSE LET entry == Head(entries)
             name == IF "name" \in DOMAIN entry THEN entry.name ELSE "main"
         IN  IF name \in DOMAIN pkgsets /\ pkgsets[name] # NoObject
             THEN Died(<<"package set is already defined", name>>)
             ELSE LET ps0 == Put(pkgsets, name, NoObject) IN
                  IF FlavorSkips(entry, fl) \/ ArchSkips(entry, arch)
                  THEN EvalEntries(Tail(entries), arch, fl, ps0)
                  ELSE LET s0 == IF "supportstatus" \in DOMAIN entry
                                 THEN [PkgSet(name) EXCEPT !.supportstatus = entry.supportstatus]
                                 ELSE PkgSet(name)
                           s1 == IF "packages" \in DOMAIN entry /\ entry.packages # <<>>
                                 THEN add_specs(s0, entry.packages)
                                 ELSE s0
                           r == EvalSetOps(entry, 1, name, Put(ps0, name, s1))
                       IN  IF ~r.ok THEN r
                           ELSE EvalEntries(Tail(entries), arch, fl, r.pkgsets)

\* The keyword create_susedata_xml writes for a package name (cli.py 560-562),
\* given the supportstatus mapping.
support_keyword(status, name) ==
    IF name \in DOMAIN status /\ status[name] # None
    THEN <<"support_", status[name]>>
    ELSE <<>>

\* [ok |-> TRUE, set |-> the PkgSet], or Died(msg) where the code calls die().
create_package_set(y, arch, fl, setname) ==
    IF "packagesets" \notin DOMAIN y
    THEN LET s == create_package_set_compat(y, arch, fl, setname)
         IN  IF s = NoObject THEN Died(<<"package set is not defined", setname>>)
             ELSE [ok |-> TRUE, set |-> s]
    ELSE LET r == EvalEntries(y.packagesets, arch, fl, <<>>)
         IN  IF ~r.ok THEN r
             ELSE IF setname \notin DOMAIN r.pkgsets
             THEN Died(<<"package set is not defined", setname>>)
             ELSE IF r.pkgsets[setname] = NoObject
             THEN [ok |-> TRUE, set |-> PkgSet(setname)]
             ELSE [ok |-> TRUE, set |-> r.pkgsets[setname]]

(***************************************************************************)
(* Linking and the provenance manifest                                     *)
(***************************************************************************)

maindir == "product"

Warn(msg) == [type |-> "WARNING", msg |-> msg]
Die(msg) == [type |-> "ERROR", msg |-> msg]

\* name + suffix for the names used here.
Cat(n, suffix) ==
    CASE n = "a" /\ suffix = "-debuginfo" -> "a-debuginfo"
      [] n = "a" /\ suffix = "-debugsource" -> "a-debugsource"
      [] n = "b" /\ suffix = "-debuginfo" -> "b-debuginfo"
      [] n = "b" /\ suffix = "-debugsource" -> "b-debugsource"
      [] OTHER -> "other"

\* files: output path -> the file linked there; directory is <<dir, arch>>.
link_file_into_dir(files, filename, directory) ==
    LET outname == Append(directory, basename(filename))
    IN  IF outname \in DOMAIN files THEN files ELSE Put(files, outname, filename)

add_entry_to_report(report, entry, outname) ==
    IF outname \in DOMAIN report THEN report ELSE Put(report, outname, entry)

\* Mutant: the last writer of an output path wins.
link_entry_last_wins(st, entry, directory) ==
    LET outname == <<directory, entry.arch, basename(entry.location)>>
    IN  [st EXCEPT !.linked = Append(@, [entry |-> entry, directory |-> directory]),
                   !.tree = Put(@, outname, entry.location),
                   !.tree_report = Put(@, outname, entry)]

\* st carries tree, tree_report and the call history.
link_entry_into_dir(st, entry, directory) ==
    LET outname == <<directory, entry.arch, basename(entry.location)>>
        called == [st EXCEPT !.linked = Append(@, [entry |-> entry, directory |-> directory])]
    IN  IF outname \in DOMAIN st.tree THEN called
        ELSE [called EXCEPT
                !.tree = link_file_into_dir(@, entry.location, <<directory, entry.arch>>),
                !.tree_report = add_entry_to_report(@, entry, outname)]

\* Mutant: the source package is looked up at any version.
LinkSourceAnyVersion(st, rpm, srcrpm) ==
    IF sourcedir = None THEN st
    ELSE LET srpm == lookup_rpm(srcrpm.arch, srcrpm.name, None, {},
                                srcrpm.version, srcrpm.release)
         IN  IF srpm # NoObject THEN link_entry_into_dir(st, srpm, sourcedir)
             ELSE [st EXCEPT
                     !.out = Append(@, Warn(<<"source rpm package not found",
                                              srcrpm.name, srcrpm.version, rpm.name>>)),
                     !.missing_package = TRUE]

\* The source part of the loop body (cli.py 890-898).
LinkSource(st, rpm, srcrpm) ==
    IF sourcedir = None THEN st
    ELSE LET srpm == lookup_rpm(srcrpm.arch, srcrpm.name, "=", {},
                                srcrpm.version, srcrpm.release)
         IN  IF srpm # NoObject THEN link_entry_into_dir(st, srpm, sourcedir)
             ELSE [st EXCEPT
                     !.out = Append(@, Warn(<<"source rpm package not found",
                                              srcrpm.name, srcrpm.version, rpm.name>>)),
                     !.missing_package = TRUE]

\* Mutant: a debug package that is not in the pool counts as missing.
LinkDebugRequired(st, rpm, srcrpm, arch) ==
    IF debugdir = None THEN st
    ELSE LET dsrc == lookup_rpm(arch, Cat(srcrpm.name, "-debugsource"), "=", {},
                                srcrpm.version, srcrpm.release)
             st1 == IF dsrc # NoObject THEN link_entry_into_dir(st, dsrc, debugdir)
                    ELSE [st EXCEPT !.missing_package = TRUE]
             dinfo == lookup_rpm(arch, Cat(rpm.name, "-debuginfo"), "=", {rpm.epoch},
                                 rpm.version, rpm.release)
         IN  IF dinfo # NoObject THEN link_entry_into_dir(st1, dinfo, debugdir)
             ELSE [st1 EXCEPT !.missing_package = TRUE]

\* Mutant: only the debugsource package is looked up.
LinkDebugSourceOnly(st, rpm, srcrpm, arch) ==
    IF debugdir = None THEN st
    ELSE LET dsrc == lookup_rpm(arch, Cat(srcrpm.name, "-debugsource"), "=", {},
                                srcrpm.version, srcrpm.release)
         IN  IF dsrc # NoObject THEN link_entry_into_dir(st, dsrc, debugdir) ELSE st

\* The debug part of the loop body (cli.py 900-907).
LinkDebug(st, rpm, srcrpm, arch) ==
    IF debugdir = None THEN st
    ELSE LET dsrc == lookup_rpm(arch, Cat(srcrpm.name, "-debugsource"), "=", {},
                                srcrpm.version, srcrpm.release)
             st1 == IF dsrc # NoObject THEN link_entry_into_dir(st, dsrc, debugdir) ELSE st
             dinfo == lookup_rpm(arch, Cat(rpm.name, "-debuginfo"), "=", {rpm.epoch},
                                 rpm.version, rpm.release)
         IN  IF dinfo # NoObject THEN link_entry_into_dir(st1, dinfo, debugdir) ELSE st1

\* Mutant: the Selector's status wins over the override table.
LinkOneSelectorFirst(st, rpm, sel, arch) ==
    LET st1 == link_entry_into_dir(st, rpm, maindir)
        st2 == [st1 EXCEPT !.supportstatus =
                   Put(@, rpm.name,
                       IF sel.supportstatus # None THEN sel.supportstatus
                       ELSE IF rpm.name \in DOMAIN supportstatus_override
                       THEN supportstatus_override[rpm.name]
                       ELSE None)]
        srcrpm == get_src_package(rpm)
    IN  IF srcrpm = NoObject
        THEN [st2 EXCEPT !.out = Append(@, Warn(<<"package does not have a source rpm",
                                                  rpm.name>>))]
        ELSE LinkDebug(LinkSource(st2, rpm, srcrpm), rpm, srcrpm, arch)

\* Mutant: a status recorded for a package name is not replaced.
LinkOneFirstStatusWins(st, rpm, sel, arch) ==
    LET st1 == link_entry_into_dir(st, rpm, maindir)
        st2 == IF rpm.name \in DOMAIN st1.supportstatus THEN st1
               ELSE [st1 EXCEPT !.supportstatus =
                       Put(@, rpm.name,
                           IF rpm.name \in DOMAIN supportstatus_override
                           THEN supportstatus_override[rpm.name]
                           ELSE sel.supportstatus)]
        srcrpm == get_src_package(rpm)
    IN  IF srcrpm = NoObject
        THEN [st2 EXCEPT !.out = Append(@, Warn(<<"package does not have a source rpm",
                                                  rpm.name>>))]
        ELSE LinkDebug(LinkSource(st2, rpm, srcrpm), rpm, srcrpm, arch)

\* One pass of "for rpm in rpms" (cli.py 879-907).
LinkOne(st, rpm, sel, arch) ==
    LET st1 == link_entry_into_dir(st, rpm, maindir)
        st2 == [st1 EXCEPT !.supportstatus =
                   Put(@, rpm.name,
                       IF rpm.name \in DOMAIN supportstatus_override
                       THEN supportstatus_override[rpm.name]
                       ELSE sel.supportstatus)]
        srcrpm == get_src_package(rpm)
    IN  IF srcrpm = NoObject
        THEN [st2 EXCEPT !.out = Append(@, Warn(<<"package does not have a source rpm",
                                                  rpm.name>>))]
        ELSE LinkDebug(LinkSource(st2, rpm, srcrpm), rpm, srcrpm, arch)

RECURSIVE LinkRpms(_, _, _, _)
LinkRpms(st, rpms, sel, arch) ==
    IF rpms = <<>> THEN st
    ELSE LinkRpms(LinkOne(st, Head(rpms), sel, arch), Tail(rpms), sel, arch)

singlemode == "take_all_available_versions" \notin yml.build_options

\* Mutant: take_all_available_versions is not consulted.
ResolveMainAlwaysSingle(sel, arch) ==
    LET rpm == lookup_rpm(arch, sel.name, sel.op, sel.epoch, sel.version, sel.release)
    IN  IF rpm # NoObject THEN <<rpm>> ELSE <<>>

\* rpms of one pass of "for sel in main_pkgset" (cli.py 867-871).
ResolveMain(sel, arch) ==
    IF singlemode
    THEN LET rpm == lookup_rpm(arch, sel.name, sel.op, sel.epoch, sel.version, sel.release)
         IN  IF rpm # NoObject THEN <<rpm>> ELSE <<>>
    ELSE lookup_all_rpms(arch, sel.name, sel.op, sel.epoch, sel.version, sel.release)

\* One pass of "for sel in main_pkgset" (cli.py 866-907).
LinkSel(st, sel, arch) ==
    LET rpms == ResolveMain(sel, arch)
    IN  IF rpms = <<>>
        THEN [st EXCEPT !.out = Append(@, Warn(<<"package not found for", sel.name, arch>>)),
                        !.missing_package = TRUE]
        ELSE LinkRpms(st, rpms, sel, arch)

\* Mutant: the ignore_missing_packages option is not consulted.
AbortsOnMissingAlways(missing) == missing

\* if missing_package and not 'ignore_missing_packages' in yml['build_options']
AbortsOnMissing(missing) ==
    missing /\ "ignore_missing_packages" \notin yml.build_options

(***************************************************************************)
(* Inputs                                                                  *)
(***************************************************************************)

Merge(f, g) == [x \in DOMAIN f \cup DOMAIN g |-> IF x \in DOMAIN g THEN g[x] ELSE f[x]]

NoKeys == <<>>

Sel(n) == [name |-> n]
SelOp(n, op, v) == [name |-> n, op |-> op, version |-> v, release |-> 1]

BuildOptions == SUBSET {"ignore_missing_packages", "take_all_available_versions"}

TreeOptions ==
    { Merge(s, d) : s \in {NoKeys, [source |-> "split"], [source |-> "include"]},
                    d \in {NoKeys, [debug |-> "split"], [debug |-> "include"]} }

AllTreeOptions ==
    { Merge(s, d) :
        s \in {NoKeys} \cup {[source |-> v] : v \in {"split", "include", "drop", "bogus"}},
        d \in {NoKeys} \cup {[debug |-> v] : v \in {"split", "include", "drop", "bogus"}} }

ArchLists == {<<"x86_64">>, <<"x86_64", "aarch64">>}

\* The keys every product file used here carries.
Product == [product_compose_schema |-> "0.2", name |-> "product", version |-> "1"]

Overrides == {NoKeys, [a |-> "l3"]}

\* Package declarations for the runs that vary the pool.
LinkSets ==
    { [packagesets |-> << [name |-> "main", supportstatus |-> "l2",
                           packages |-> <<Sel("a"), Sel("b")>>],
                          [name |-> "meta", packages |-> <<Sel("b")>>] >>,
       unpack |-> <<"meta">>],
      [packagesets |-> << [name |-> "main",
                           packages |-> <<Sel("a"), Sel("b"), Sel("c")>>],
                          [name |-> "meta", packages |-> <<Sel("a")>>] >>,
       unpack |-> <<"meta">>],
      [packages |-> <<SelOp("a", ">=", 1)>>,
       unpack_packages |-> << [packages |-> <<Sel("b")>>, architectures |-> {"x86_64"}],
                              Sel("c") >>,
       unpack |-> <<"unpack">>],
      [packagesets |-> << [name |-> "x", architectures |-> {"x86_64"},
                           supportstatus |-> "l2", packages |-> <<Sel("a")>>],
                          [name |-> "y", architectures |-> {"aarch64"},
                           packages |-> <<Sel("a")>>],
                          [name |-> "main", add |-> <<"x", "y">>] >>] }

\* Entries of a packagesets list for the runs that vary the set algebra.
EntryBases ==
    { [name |-> "main", packages |-> <<Sel("a"), Sel("b")>>],
      [name |-> "extra", supportstatus |-> "l2", packages |-> <<Sel("b"), Sel("c")>>],
      [packages |-> <<SelOp("a", "=", 1)>>] }

EntryFilters == {NoKeys, [architectures |-> {"aarch64"}], [flavors |-> {"full"}]}

EntryOps ==
    {NoKeys, [add |-> <<"extra">>], [sub |-> <<"extra">>], [intersect |-> <<"extra">>],
     [add |-> <<"nosuch">>]}

Entries == { Merge(Merge(b, f), o) : b \in EntryBases, f \in EntryFilters, o \in EntryOps }

\* What an entry for "main" may say besides its own packages.
MainOps ==
    { [add |-> <<"other">>, sub |-> <<"extra">>],
      [add |-> <<"extra", "other">>, intersect |-> <<"extra">>],
      [add |-> <<"other", "extra">>],
      [add |-> <<"extra", "other">>],
      [sub |-> <<"other">>, intersect |-> <<"extra">>, add |-> <<"extra">>],
      [union |-> <<"extra">>] }

\* Lists of three entries.
SetLists3 ==
    { << [name |-> "extra", flavors |-> {"full"}, packages |-> <<Sel("b"), Sel("c")>>],
         [name |-> "main", packages |-> <<Sel("a"), Sel("b")>>, add |-> <<"extra">>],
         [name |-> "extra", packages |-> <<Sel("c")>>] >> }
    \cup
    { << Merge([name |-> "extra", supportstatus |-> "l2",
                packages |-> <<Sel("b"), Sel("c")>>], f),
         [name |-> "other", packages |-> <<Sel("a"), SelOp("c", "=", 1)>>],
         Merge([name |-> "main", packages |-> <<Sel("a"), Sel("b")>>], o) >> :
        f \in {NoKeys, [architectures |-> {"aarch64"}]}, o \in MainOps }

SetLists ==
    { <<e>> : e \in Entries } \cup { <<e1, e2>> : e1 \in Entries, e2 \in Entries }
        \cup SetLists3

UnpackLists == {NoKeys, [unpack |-> <<"extra">>], [unpack |-> <<"nosuch">>]}

Started ==
    /\ pc = "build"
    /\ requested_archs = <<>>
    /\ ai = 1
    /\ ui = 0
    /\ unit = <<>>
    /\ pkgset = <<>>
    /\ si = 0
    /\ missing_package = FALSE
    /\ sourcedir = None
    /\ debugdir = None
    /\ tree = <<>>
    /\ tree_report = <<>>
    /\ supportstatus = <<>>
    /\ out = <<>>
    /\ linked = <<>>
    /\ unpacked = <<>>
    /\ reports = <<>>

\* Runs over every pool, with a few package declarations.
InitLink ==
    /\ pool \in Pools
    /\ flavor = None
    /\ supportstatus_override \in Overrides
    /\ \E sets \in LinkSets, archs \in ArchLists, bo \in BuildOptions, t \in TreeOptions :
          yml = Merge(Merge(Product, Merge(sets, t)),
                      [architectures |-> archs, build_options |-> bo])
    /\ Started

\* Runs over every packagesets list, with one pool.
InitSets ==
    /\ pool = <<Catalogue[1], Catalogue[5]>>
    /\ flavor \in {None, "full"}
    /\ supportstatus_override = NoKeys
    /\ \E l \in SetLists, u \in UnpackLists :
          yml = Merge(Merge(Product, Merge([packagesets |-> l], u)),
                      [flavors |-> [full |-> NoKeys],
                       architectures |-> <<"x86_64", "aarch64">>,
                       build_options |-> {"ignore_missing_packages"}])
    /\ Started

\* Runs over every value of the source and debug options, in the old format.
InitOptions ==
    /\ pool = <<Catalogue[1], Catalogue[6], Catalogue[7], Catalogue[8]>>
    /\ flavor = None
    /\ supportstatus_override = NoKeys
    /\ \E t \in AllTreeOptions, p \in {NoKeys, [packages |-> <<Sel("a")>>]},
          u \in {NoKeys, [unpack |-> <<"unpack">>], [unpack |-> <<"meta">>]} :
          yml = Merge(Merge(Product, Merge(p, u)), Merge(t,
                      [architectures |-> <<"x86_64">>, build_options |-> {}]))
    /\ Started

BuildHeads ==
    { Product,
      [name |-> "product", version |-> "1"],
      [product_compose_schema |-> "1", name |-> "product", version |-> "1"],
      [product_compose_schema |-> "0", name |-> "pro/duct", version |-> "1"] }

BuildArchs ==
    { [architectures |-> l] :
        l \in { <<>>, <<"x86_64">>, <<"x86_64", "local">>, <<"local", "aarch64">>,
                <<"local">>, <<"local", "x86_64", "local">> } }

BuildFlavors ==
    { NoKeys,
      [flavors |-> [full |-> NoKeys]],
      [flavors |-> [full |-> [architectures |-> <<"aarch64", "local">>]]],
      [flavors |-> [full |-> [architectures |-> <<"x86_64">>,
                              product_directory_name |-> "pro/duct"]]] }

\* Runs over product files that differ in what parse_yaml and get_product_dir
\* look at.
InitBuild ==
    /\ pool = <<Catalogue[1], Catalogue[4]>>
    /\ flavor \in {None, "full", "mini"}
    /\ supportstatus_override = NoKeys
    /\ \E h \in BuildHeads, a \in BuildArchs, f \in BuildFlavors,
          bo \in {NoKeys, [build_options |-> {"ignore_missing_packages"}]},
          t \in {NoKeys, [source |-> "split", debug |-> "split"]} :
          yml = Merge(Merge(Merge(h, a), Merge(f, bo)),
                      Merge(t, [packagesets |-> << [packages |-> <<Sel("a")>>] >>]))
    /\ Started

Init == InitLink \/ InitSets \/ InitOptions \/ InitBuild

\* The pools of the runs that are checked for termination.
LivePools ==
    { <<Catalogue[1], Catalogue[5]>>, <<Catalogue[1], Catalogue[4]>>,
      <<Catalogue[5]>> }

\* A package set that stops the evaluation for aarch64 only.
LiveSets ==
    LinkSets \cup
    { [packagesets |-> << [name |-> "main", packages |-> <<Sel("a"), Sel("b")>>],
                          [name |-> "extra", architectures |-> {"aarch64"},
                           add |-> <<"nosuch">>] >>] }

InitLive ==
    /\ pool \in LivePools
    /\ flavor = None
    /\ supportstatus_override = NoKeys
    /\ \E sets \in LiveSets, archs \in ArchLists, bo \in BuildOptions :
          yml = Merge(Merge(Product, sets),
                      [architectures |-> archs, build_options |-> bo])
    /\ Started

(***************************************************************************)
(* build: parse_yaml and get_product_dir                                   *)
(***************************************************************************)

\* The schema numbers 0, 0.1 and 0.2 as they are written.
SupportedSchemas == {"0", "0.1", "0.2"}

FlavorKeys == {"architectures", "name", "summary", "version", "product-type",
               "product_directory_name"}

\* overwrite global values from flavor overwrites
FlavorOverride(y, f) ==
    [k \in DOMAIN y \cup (FlavorKeys \cap DOMAIN f) |->
        IF k \in FlavorKeys \cap DOMAIN f THEN f[k] ELSE y[k]]

\* [ok |-> TRUE, yml |-> the product file], or Died(msg).
parse_yaml(y, fl) ==
    IF "product_compose_schema" \notin DOMAIN y
    THEN Died(<<"missing product composer schema">>)
    ELSE IF y.product_compose_schema \notin SupportedSchemas
    THEN Died(<<"Unsupported product composer schema", y.product_compose_schema>>)
    ELSE LET y1 == IF "flavors" \in DOMAIN y THEN y ELSE Put(y, "flavors", <<>>)
         IN  IF fl # None /\ fl \notin DOMAIN y1.flavors
             THEN Died(<<"Flavor not found", fl>>)
             ELSE LET y2 == IF fl # None THEN FlavorOverride(y1, y1.flavors[fl]) ELSE y1
                  IN  IF "architectures" \notin DOMAIN y2 \/ y2.architectures = <<>>
                      THEN Died(<<"No architecture defined">>)
                      ELSE [ok |-> TRUE,
                            yml |-> IF "build_options" \in DOMAIN y2 THEN y2
                                    ELSE Put(y2, "build_options", {})]

RECURSIVE RemoveFirst(_, _)
\* list.remove(x): the list without the first x.
RemoveFirst(s, x) ==
    IF s = <<>> THEN <<>>
    ELSE IF Head(s) = x THEN Tail(s)
    ELSE <<Head(s)>> \o RemoveFirst(Tail(s), x)

\* '/' in a part of the directory name, for the names used here.
HasSlash(part) == part = "pro/duct"

\* The name as the list of its parts, and yml as the call leaves it:
\* visible_archs is yml['architectures'] itself, so remove() changes both.
\* No release is given on the command line.
get_product_dir(y, fl) ==
    LET base == IF "product_directory_name" \in DOMAIN y
                THEN <<y.product_directory_name>>
                ELSE <<y.name, "-", y.version>>
        fpart == IF fl # None
                    /\ "hide_flavor_in_product_directory_name" \notin y.build_options
                 THEN <<"-", fl>> ELSE <<>>
        visible_archs == IF "local" \in {y.architectures[k] : k \in 1..Len(y.architectures)}
                         THEN RemoveFirst(y.architectures, "local")
                         ELSE y.architectures
        apart == IF y.architectures # <<>> THEN <<"-">> \o visible_archs ELSE <<>>
        name == base \o fpart \o apart
    IN  [ok |-> ~ \E k \in 1..Len(name) : HasSlash(name[k]),
         name |-> name,
         yml |-> [y EXCEPT !.architectures = visible_archs]]

\* build (cli.py 108-141) up to the call of create_tree.  maindir stands for
\* args.out + '/' + the name get_product_dir returns.
Build ==
    /\ pc = "build"
    /\ LET p == parse_yaml(yml, flavor)
       IN  IF ~p.ok
           THEN /\ pc' = "died"
                /\ out' = Append(out, Die(p.msg))
                /\ UNCHANGED <<yml, requested_archs, unit>>
           ELSE LET d == get_product_dir(p.yml, flavor)
                IN  /\ yml' = d.yml
                    /\ requested_archs' = p.yml.architectures
                    /\ unit' = [i \in 1..Len(d.yml.architectures) |-> "PENDING"]
                    /\ IF d.ok
                       THEN pc' = "create_tree" /\ UNCHANGED out
                       ELSE /\ pc' = "died"
                            /\ out' = Append(out, Die(<<"Illegal product name">>))
    /\ UNCHANGED <<flavor, pool, supportstatus_override, reports, ai, ui, pkgset, si,
                   missing_package, sourcedir, debugdir, tree, tree_report,
                   supportstatus, linked, unpacked>>

(***************************************************************************)
(* create_tree                                                             *)
(***************************************************************************)

\* The state a loop body works on, and its write-back.
Work == [tree |-> tree, tree_report |-> tree_report, supportstatus |-> supportstatus,
         missing_package |-> missing_package, out |-> out, linked |-> linked]

Store(st) ==
    /\ tree' = st.tree
    /\ tree_report' = st.tree_report
    /\ supportstatus' = st.supportstatus
    /\ missing_package' = st.missing_package
    /\ out' = st.out
    /\ linked' = st.linked

arch == yml.architectures[ai]

UnpackNames == IF "unpack" \in DOMAIN yml THEN yml.unpack ELSE <<>>

\* create_tree up to its first loop: the work directories (cli.py 233-256).
SetupDirs ==
    /\ pc = "create_tree"
    /\ LET badsource == "source" \in DOMAIN yml
                        /\ yml.source \notin {"split", "include", "drop"}
           baddebug == "debug" \in DOMAIN yml
                       /\ yml.debug \notin {"split", "include", "drop"}
           sdir == IF "source" \in DOMAIN yml /\ yml.source = "split" THEN "product-Source"
                   ELSE IF "source" \in DOMAIN yml /\ yml.source = "include" THEN maindir
                   ELSE None
           ddir == IF "debug" \in DOMAIN yml /\ yml.debug = "split" THEN "product-Debug"
                   ELSE IF "debug" \in DOMAIN yml /\ yml.debug = "include" THEN maindir
                   ELSE None
       IN  IF badsource
           THEN /\ pc' = "died"
                /\ out' = Append(out, Die(<<"Bad source option">>))
                /\ UNCHANGED <<sourcedir, debugdir>>
           ELSE IF baddebug
           THEN /\ pc' = "died"
                /\ out' = Append(out, Die(<<"Bad debug option">>))
                /\ sourcedir' = sdir
                /\ UNCHANGED debugdir
           ELSE /\ pc' = IF yml.architectures = <<>> THEN "report" ELSE "link"
                /\ sourcedir' = sdir
                /\ debugdir' = ddir
                /\ UNCHANGED out
    /\ UNCHANGED <<inputs, requested_archs, reports, ai, ui, unit, pkgset, si, missing_package, tree,
                   tree_report, supportstatus, linked, unpacked>>

\* link_rpms_to_tree up to its loop: create_package_set(yml, arch, flavor, 'main').
LinkEvalSet ==
    /\ pc = "link"
    /\ unit[ai] = "PENDING"
    /\ LET r == create_package_set(yml, arch, flavor, "main")
       IN  IF r.ok
           THEN /\ pkgset' = Iter(r.set)
                /\ unit' = [unit EXCEPT ![ai] = "SET_EVALUATED"]
                /\ UNCHANGED <<pc, out>>
           ELSE /\ pc' = "died"
                /\ out' = Append(out, Die(r.msg))
                /\ UNCHANGED <<pkgset, unit>>
    /\ si' = 0
    /\ missing_package' = FALSE
    /\ UNCHANGED <<inputs, requested_archs, reports, ai, ui, sourcedir, debugdir, tree, tree_report,
                   supportstatus, linked, unpacked>>

AbortMsg == Die(<<"Abort due to missing packages">>)

\* Mutant: the loop over main_pkgset dies at the first missing package.
LinkSelectorFailFast ==
    /\ pc = "link"
    /\ unit[ai] \in {"SET_EVALUATED", "RESOLVING"}
    /\ si < Len(pkgset)
    /\ LET st == LinkSel(Work, pkgset[si + 1], arch)
       IN  IF AbortsOnMissing(st.missing_package)
           THEN /\ Store([st EXCEPT !.out = Append(@, AbortMsg)])
                /\ pc' = "died"
                /\ unit' = [unit EXCEPT ![ai] = "ABORTED"]
           ELSE /\ Store(st)
                /\ unit' = [unit EXCEPT ![ai] = "RESOLVING"]
                /\ UNCHANGED pc
    /\ si' = si + 1
    /\ UNCHANGED <<inputs, requested_archs, reports, ai, ui, pkgset, sourcedir, debugdir, unpacked>>

\* Mutant: among the Packages that satisfy the Selector, any one that no other
\* is newer than may be the one that is linked.
LinkSelectorAnyBest ==
    /\ pc = "link"
    /\ unit[ai] \in {"SET_EVALUATED", "RESOLVING"}
    /\ si < Len(pkgset)
    /\ LET sel == pkgset[si + 1]
           all == lookup_all_rpms(arch, sel.name, sel.op, sel.epoch, sel.version,
                                  sel.release)
       IN  IF all = <<>> THEN Store(LinkSel(Work, sel, arch))
           ELSE \E k \in 1..Len(all) :
                   /\ ~Newer(all[1], all[k])
                   /\ Store(LinkRpms(Work, <<all[k]>>, sel, arch))
    /\ si' = si + 1
    /\ unit' = [unit EXCEPT ![ai] = "RESOLVING"]
    /\ UNCHANGED <<inputs, requested_archs, reports, pc, ai, ui, pkgset, sourcedir,
                   debugdir, unpacked>>

\* One pass of the loop over main_pkgset.
LinkSelector ==
    /\ pc = "link"
    /\ unit[ai] \in {"SET_EVALUATED", "RESOLVING"}
    /\ si < Len(pkgset)
    /\ Store(LinkSel(Work, pkgset[si + 1], arch))
    /\ si' = si + 1
    /\ unit' = [unit EXCEPT ![ai] = "RESOLVING"]
    /\ UNCHANGED <<inputs, requested_archs, reports, pc, ai, ui, pkgset, sourcedir, debugdir, unpacked>>

\* To the first unpack_meta_rpms call for the architecture at index i.
EnterUnpack(i) ==
    /\ pc' = "unpack"
    /\ ai' = i
    /\ ui' = 0
    /\ pkgset' = <<>>
    /\ si' = 0
    /\ missing_package' = FALSE

\* Mutant: a run that ends without the abort is not marked as complete.
LinkFinishNoComplete ==
    /\ pc = "link"
    /\ unit[ai] \in {"SET_EVALUATED", "RESOLVING"}
    /\ si = Len(pkgset)
    /\ IF AbortsOnMissing(missing_package)
       THEN /\ pc' = "died"
            /\ out' = Append(out, AbortMsg)
            /\ unit' = [unit EXCEPT ![ai] = "ABORTED"]
            /\ UNCHANGED <<ai, ui, pkgset, si, missing_package>>
       ELSE /\ UNCHANGED <<unit, out>>
            /\ IF ai < Len(yml.architectures)
               THEN /\ ai' = ai + 1
                    /\ pkgset' = <<>>
                    /\ si' = 0
                    /\ missing_package' = FALSE
                    /\ UNCHANGED <<pc, ui>>
               ELSE EnterUnpack(1)
    /\ UNCHANGED <<inputs, requested_archs, reports, sourcedir, debugdir, tree,
                   tree_report, supportstatus, linked, unpacked>>

\* The end of link_rpms_to_tree and create_tree's step to the next call, where
\* the locals of the call that returned are gone.
LinkFinish ==
    /\ pc = "link"
    /\ unit[ai] \in {"SET_EVALUATED", "RESOLVING"}
    /\ si = Len(pkgset)
    /\ IF AbortsOnMissing(missing_package)
       THEN /\ pc' = "died"
            /\ out' = Append(out, AbortMsg)
            /\ unit' = [unit EXCEPT ![ai] = "ABORTED"]
            /\ UNCHANGED <<ai, ui, pkgset, si, missing_package>>
       ELSE /\ unit' = [unit EXCEPT ![ai] = "COMPLETE"]
            /\ UNCHANGED out
            /\ IF ai < Len(yml.architectures)
               THEN /\ ai' = ai + 1
                    /\ pkgset' = <<>>
                    /\ si' = 0
                    /\ missing_package' = FALSE
                    /\ UNCHANGED <<pc, ui>>
               ELSE EnterUnpack(1)
    /\ UNCHANGED <<inputs, requested_archs, reports, sourcedir, debugdir, tree, tree_report, supportstatus,
                   linked, unpacked>>

\* unpack_meta_rpms: create_package_set for the next name of yml['unpack'].
UnpackEvalSet ==
    /\ pc = "unpack"
    /\ si = Len(pkgset)
    /\ ui < Len(UnpackNames)
    /\ LET r == create_package_set(yml, arch, flavor, UnpackNames[ui + 1])
       IN  IF r.ok
           THEN /\ pkgset' = Iter(r.set)
                /\ si' = 0
                /\ ui' = ui + 1
                /\ UNCHANGED <<pc, out>>
           ELSE /\ pc' = "died"
                /\ out' = Append(out, Die(r.msg))
                /\ UNCHANGED <<pkgset, si, ui>>
    /\ UNCHANGED <<inputs, requested_archs, reports, ai, unit, missing_package, sourcedir, debugdir, tree,
                   tree_report, supportstatus, linked, unpacked>>

\* Mutant: the loop over unpack_pkgset dies at the first missing package.
UnpackSelectorFailFast ==
    /\ pc = "unpack"
    /\ si < Len(pkgset)
    /\ LET sel == pkgset[si + 1]
           rpm == lookup_rpm(arch, sel.name, sel.op, sel.epoch, sel.version, sel.release)
       IN  IF rpm = NoObject
           THEN /\ missing_package' = TRUE
                /\ IF AbortsOnMissing(TRUE)
                   THEN /\ out' = out \o <<Warn(<<"package not found", sel.name>>), AbortMsg>>
                        /\ pc' = "died"
                   ELSE /\ out' = Append(out, Warn(<<"package not found", sel.name>>))
                        /\ UNCHANGED pc
                /\ UNCHANGED unpacked
           ELSE /\ unpacked' = Append(unpacked, rpm)
                /\ UNCHANGED <<out, missing_package, pc>>
    /\ si' = si + 1
    /\ UNCHANGED <<inputs, requested_archs, reports, ai, ui, unit, pkgset, sourcedir, debugdir, tree,
                   tree_report, supportstatus, linked>>

\* Mutant: the loop over unpack_pkgset resolves a Selector as the loop over
\* main_pkgset does.
UnpackSelectorAsLink ==
    /\ pc = "unpack"
    /\ si < Len(pkgset)
    /\ LET sel == pkgset[si + 1]
           rpms == ResolveMain(sel, arch)
       IN  IF rpms = <<>>
           THEN /\ out' = Append(out, Warn(<<"package not found", sel.name>>))
                /\ missing_package' = TRUE
                /\ UNCHANGED unpacked
           ELSE /\ unpacked' = unpacked \o rpms
                /\ UNCHANGED <<out, missing_package>>
    /\ si' = si + 1
    /\ UNCHANGED <<inputs, requested_archs, reports, pc, ai, ui, unit, pkgset, sourcedir,
                   debugdir, tree, tree_report, supportstatus, linked>>

\* One pass of the loop over unpack_pkgset (cli.py 770-776).
UnpackSelector ==
    /\ pc = "unpack"
    /\ si < Len(pkgset)
    /\ LET sel == pkgset[si + 1]
           rpm == lookup_rpm(arch, sel.name, sel.op, sel.epoch, sel.version, sel.release)
       IN  IF rpm = NoObject
           THEN /\ out' = Append(out, Warn(<<"package not found", sel.name>>))
                /\ missing_package' = TRUE
                /\ UNCHANGED unpacked
           ELSE /\ unpacked' = Append(unpacked, rpm)
                /\ UNCHANGED <<out, missing_package>>
    /\ si' = si + 1
    /\ UNCHANGED <<inputs, requested_archs, reports, pc, ai, ui, unit, pkgset, sourcedir, debugdir, tree,
                   tree_report, supportstatus, linked>>

\* The end of unpack_meta_rpms and create_tree's step to the next call.
UnpackFinish ==
    /\ pc = "unpack"
    /\ si = Len(pkgset)
    /\ ui = Len(UnpackNames)
    /\ IF AbortsOnMissing(missing_package)
       THEN /\ pc' = "died"
            /\ out' = Append(out, AbortMsg)
            /\ UNCHANGED <<ai, ui, pkgset, si, missing_package>>
       ELSE /\ UNCHANGED out
            /\ IF ai < Len(yml.architectures)
               THEN EnterUnpack(ai + 1)
               ELSE /\ pc' = "report"
                    /\ UNCHANGED <<ai, ui, pkgset, si, missing_package>>
    /\ UNCHANGED <<inputs, requested_archs, reports, unit, sourcedir, debugdir, tree, tree_report,
                   supportstatus, linked, unpacked>>

(***************************************************************************)
(* write_report_file                                                       *)
(***************************************************************************)

\* A directory name as the list of its parts.
DirStr(dir) ==
    CASE dir = "product" -> <<"product">>
      [] dir = "product-Source" -> <<"product", "-Source">>
      [] dir = "product-Debug" -> <<"product", "-Debug">>

\* The text of "dir/arch/" as the list of its parts.
PathHead(path) == DirStr(path[1]) \o <<"/", path[2], "/">>

\* The text of an output path: "dir/arch/file".
PathStr(path) == PathHead(path) \o <<path[3]>>

\* str.startswith
StartsWith(s, prefix) ==
    Len(prefix) <= Len(s) /\ SubSeq(s, 1, Len(prefix)) = prefix

\* The parts of a path's head in the order of their text.
PartOrder == <<"-Debug", "-Source", "/", "aarch64", "local", "product", "src", "x86_64">>

PartRank(part) == CHOOSE k \in 1..Len(PartOrder) : PartOrder[k] = part

RECURSIVE StrLess(_, _)
\* s < t for two lists of parts.
StrLess(s, t) ==
    IF t = <<>> THEN FALSE
    ELSE IF s = <<>> THEN TRUE
    ELSE IF Head(s) # Head(t) THEN PartRank(Head(s)) < PartRank(Head(t))
    ELSE StrLess(Tail(s), Tail(t))

NameRank(n) == CHOOSE k \in 1..Len(NameOrder) : NameOrder[k] = n

\* "n-v-r.a.rpm" < "n'-v'-r'.a'.rpm" for the file names used here.
FileLess(f, g) ==
    IF f[1] # g[1] THEN NameRank(f[1]) < NameRank(g[1])
    ELSE IF f[2] # g[2] THEN f[2] < g[2]
    ELSE IF f[3] # g[3] THEN f[3] < g[3]
    ELSE f[4] # g[4] /\ PartRank(f[4]) < PartRank(g[4])

PathLess(p, q) ==
    IF PathHead(p) # PathHead(q) THEN StrLess(PathHead(p), PathHead(q))
    ELSE FileLess(p[3], q[3])

RECURSIVE SortedPaths(_)
\* sorted() of a set of output paths.
SortedPaths(S) ==
    IF S = {} THEN <<>>
    ELSE LET first == CHOOSE p \in S : \A q \in S \ {p} : PathLess(p, q)
         IN  <<first>> \o SortedPaths(S \ {first})

\* Mutant: the directory is compared without the '/' appended to it.
write_report_no_slash(report, directory) ==
    LET under(fn) == StartsWith(PathStr(fn), DirStr(directory))
        fns == SelectSeq(SortedPaths(DOMAIN report), under)
    IN  [k \in 1..Len(fns) |-> [fn |-> fns[k], binary |-> report[fns[k]]]]

\* The binary elements written for a directory, each with the output path it
\* was written for.
write_report_file(report, directory) ==
    LET under(fn) == StartsWith(PathStr(fn), DirStr(directory) \o <<"/">>)
        fns == SelectSeq(SortedPaths(DOMAIN report), under)
    IN  [k \in 1..Len(fns) |-> [fn |-> fns[k], binary |-> report[fns[k]]]]

\* The end of create_tree (cli.py 299-303).  The steps between the unpack loop
\* and here run createrepo and gpg and leave the manifest alone.
WriteReports ==
    /\ pc = "report"
    /\ LET main == [x \in {maindir} |-> write_report_file(tree_report, maindir)]
           src == IF sourcedir # None /\ maindir # sourcedir
                  THEN [x \in {sourcedir} |-> write_report_file(tree_report, sourcedir)]
                  ELSE <<>>
           dbg == IF debugdir # None /\ maindir # debugdir
                  THEN [x \in {debugdir} |-> write_report_file(tree_report, debugdir)]
                  ELSE <<>>
       IN  reports' = Merge(Merge(main, src), dbg)
    /\ pc' = "done"
    /\ UNCHANGED <<inputs, requested_archs, ai, ui, unit, pkgset, si, missing_package,
                   sourcedir, debugdir, tree, tree_report, supportstatus, out,
                   linked, unpacked>>

Next ==
    \/ Build
    \/ SetupDirs
    \/ LinkEvalSet
    \/ LinkSelector
    \/ LinkFinish
    \/ UnpackEvalSet
    \/ UnpackSelector
    \/ UnpackFinish
    \/ WriteReports

Spec == Init /\ [][Next]_vars

\* The program is one sequential process that runs whenever it can take a step.
LiveSpec == InitLive /\ [][Next]_vars /\ WF_vars(Next)

(***************************************************************************)
(* Properties                                                              *)
(***************************************************************************)

Range(s) == { s[k] : k \in 1..Len(s) }

InOut(m) == m \in Range(out)

ArchAt(i) == yml.architectures[i]

\* create_tree is at, or stopped at, one of the architectures it iterates.
AtArch == pc \in {"link", "unpack", "report", "done", "died"} /\ ai \in DOMAIN unit

\* No package of the pool satisfies the Selector for the architecture.
Unresolvable(sel, a) ==
    ~ \E p \in Range(pool) : /\ p.arch = a
                             /\ p.name = sel.name
                             /\ Satisfies(p, sel.op, sel.epoch, sel.version, sel.release)

MainSetOf(i) == create_package_set(yml, ArchAt(i), flavor, "main")

\* Every unresolvable Selector of architecture i's main set has been reported.
MainReported(i) ==
    MainSetOf(i).ok =>
        \A sel \in Range(Iter(MainSetOf(i).set)) :
            Unresolvable(sel, ArchAt(i)) =>
                InOut(Warn(<<"package not found for", sel.name, ArchAt(i)>>))

\* Every unresolvable Selector of architecture i's unpack sets has been reported.
UnpackReported(i) ==
    \A j \in 1..Len(UnpackNames) :
        LET r == create_package_set(yml, ArchAt(i), flavor, UnpackNames[j])
        IN  r.ok => \A sel \in Range(Iter(r.set)) :
                        Unresolvable(sel, ArchAt(i)) =>
                            InOut(Warn(<<"package not found", sel.name>>))

AbortedOnMissing == pc = "died" /\ out # <<>> /\ out[Len(out)] = AbortMsg

IgnoreSet ==
    "build_options" \in DOMAIN yml /\ "ignore_missing_packages" \in yml.build_options

\* C1: a link_rpms_to_tree run aborts only when every Selector of the
\* evaluated main set has been looked up, and by then every unresolvable
\* Selector of that set has been reported as missing.
C1_AbortOnlyAfterFullLoop ==
    \A i \in DOMAIN unit :
        unit[i] = "ABORTED" =>
            /\ i = ai
            /\ si = Len(pkgset)
            /\ MainSetOf(i).ok
            /\ pkgset = Iter(MainSetOf(i).set)
            /\ MainReported(i)

\* An aborted run whose main set had one resolvable and two unresolvable Selectors.
C1_Witness ==
    /\ AtArch
    /\ unit[ai] = "ABORTED"
    /\ Cardinality({k \in 1..Len(pkgset) : Unresolvable(pkgset[k], arch)}) >= 2
    /\ \E k \in 1..Len(pkgset) : ~Unresolvable(pkgset[k], arch)

\* C2 as stated: when the build ends with the missing-package failure, the
\* unresolvable Selectors of every architecture's main set and unpack sets
\* have been reported.
C2_AllArchitecturesReported ==
    AbortedOnMissing => \A i \in DOMAIN unit : MainReported(i) /\ UnpackReported(i)

\* C2, amended: the build ends with the missing-package failure at the end of
\* the first link_rpms_to_tree or unpack_meta_rpms call that recorded a missing
\* package; the unresolvable Selectors of that call and of the earlier calls
\* have been reported, and the architectures after an aborted link run are
\* never examined.
C2_AbortAtFirstFailingCall ==
    AbortedOnMissing =>
        IF unit[ai] = "ABORTED"
        THEN /\ \A i \in 1..ai : MainReported(i)
             /\ \A i \in (ai + 1)..Len(yml.architectures) : unit[i] = "PENDING"
             /\ unpacked = <<>>
        ELSE /\ \A i \in DOMAIN unit : unit[i] = "COMPLETE" /\ MainReported(i)
             /\ \A i \in 1..ai : UnpackReported(i)
             /\ si = Len(pkgset) /\ ui = Len(UnpackNames)

\* The first of two architectures aborted while the second has an unreported
\* unresolvable Selector.
C2_Witness ==
    /\ AbortedOnMissing
    /\ Len(yml.architectures) = 2
    /\ unit[1] = "ABORTED"
    /\ ~MainReported(2)

\* C3: with ignore_missing_packages set no missing-package condition aborts
\* the run: every run that finished its loop is COMPLETE, its unresolvable
\* Selectors are reported and have no file in the output tree, and the unpack
\* Selectors that did not resolve are reported.
C3_IgnoreNeverAborts ==
    IgnoreSet =>
        /\ ~InOut(AbortMsg)
        /\ \A i \in DOMAIN unit :
              /\ unit[i] # "ABORTED"
              /\ (i < ai \/ pc \in {"unpack", "report", "done"}) => unit[i] = "COMPLETE"
              /\ unit[i] = "COMPLETE" =>
                    /\ MainReported(i)
                    /\ \A sel \in Range(Iter(MainSetOf(i).set)) :
                          Unresolvable(sel, ArchAt(i)) =>
                              ~ \E path \in DOMAIN tree :
                                    /\ path[2] = ArchAt(i)
                                    /\ path[3][1] = sel.name
        /\ pc = "done" => \A i \in DOMAIN unit : UnpackReported(i)

\* A finished build that ignored a missing main package, a missing source
\* package and a missing unpack package.
C3_Witness ==
    /\ IgnoreSet
    /\ pc = "done"
    /\ \E m \in Range(out) : m.msg[1] = "package not found for"
    /\ \E m \in Range(out) : m.msg[1] = "source rpm package not found"
    /\ \E m \in Range(out) : m.msg[1] = "package not found"

OutName(c) == <<c.directory, c.entry.arch, basename(c.entry.location)>>

\* The pool's packages that satisfy the Selector for the architecture.
Matching(sel, a) ==
    { p \in Range(pool) : /\ p.arch = a
                          /\ p.name = sel.name
                          /\ Satisfies(p, sel.op, sel.epoch, sel.version, sel.release) }

\* The step that runs the loop body for pkgset[si + 1] in link_rpms_to_tree.
LinkStep == pc = "link" /\ si' = si + 1

\* The Packages passed to link_entry_into_dir for the main tree by this step,
\* for the Selector's own name and the architecture.
LinkedByStep ==
    LET new == SubSeq(linked', Len(linked) + 1, Len(linked'))
        own(c) == /\ c.directory = maindir
                  /\ c.entry.name = pkgset[si + 1].name
                  /\ c.entry.arch = arch
        calls == SelectSeq(new, own)
    IN  [k \in 1..Len(calls) |-> calls[k].entry]

\* C4: without take_all_available_versions a Selector of the main set links
\* at most one Package, the newest that satisfies it; with the option it links
\* every Package that satisfies it, newest first.
C4_ResolutionMode ==
    [][LinkStep =>
        LET sel == pkgset[si + 1]
            got == LinkedByStep
        IN  IF "take_all_available_versions" \notin yml.build_options
            THEN /\ Len(got) <= 1
                 /\ Matching(sel, arch) # {} =>
                       /\ Len(got) = 1
                       /\ got[1] \in Matching(sel, arch)
                       /\ \A p \in Matching(sel, arch) : ~Newer(p, got[1])
            ELSE /\ Range(got) = Matching(sel, arch)
                 /\ Len(got) = Cardinality(Matching(sel, arch))
                 /\ \A j, k \in 1..Len(got) : j < k => ~Newer(got[k], got[j])
                 /\ got = lookup_all_rpms(arch, sel.name, sel.op, sel.epoch,
                                          sel.version, sel.release)]_vars

\* With the option set, "a" 2-1 was linked before "a" 1-1.
C4_Witness ==
    /\ AtArch
    /\ "take_all_available_versions" \in yml.build_options
    /\ \E j, k \in 1..Len(linked) :
          /\ j < k
          /\ linked[j].directory = maindir /\ linked[k].directory = maindir
          /\ linked[j].entry.name = "a" /\ linked[k].entry.name = "a"
          /\ linked[j].entry.version = 2 /\ linked[k].entry.version = 1

FirstCall(o) ==
    CHOOSE j \in 1..Len(linked) :
        OutName(linked[j]) = o /\ \A i \in 1..(j - 1) : OutName(linked[i]) # o

\* C5: the manifest and the output tree hold, for every output path ever
\* passed to link_entry_into_dir, the Package of the first call for that path;
\* later calls for the path change neither.
C5_FirstWriterWins ==
    /\ \A k \in 1..Len(linked) :
          LET o == OutName(linked[k])
              first == linked[FirstCall(o)].entry
          IN  /\ o \in DOMAIN tree_report
              /\ tree_report[o] = first
              /\ o \in DOMAIN tree
              /\ tree[o] = first.location
    /\ DOMAIN tree_report = { OutName(c) : c \in Range(linked) }

\* Two calls for one output path with different Packages.
C5_Witness ==
    \E j, k \in 1..Len(linked) :
        /\ j < k
        /\ OutName(linked[j]) = OutName(linked[k])
        /\ linked[j].entry # linked[k].entry

\* The statuses declared by the package sets that list the name.
DeclaredStatuses(n) ==
    IF "packagesets" \notin DOMAIN yml THEN {None}
    ELSE { (IF "supportstatus" \in DOMAIN e THEN e.supportstatus ELSE None) :
             e \in { x \in Range(yml.packagesets) :
                       "packages" \in DOMAIN x
                       /\ \E k \in 1..Len(x.packages) : x.packages[k].name = n } }

\* C6: after a Selector resolved, the status recorded for the package name is
\* the override table's when the name is in it, otherwise the Selector's, which
\* is one declared by a set that lists the name; with neither, the name has no
\* status (no support keyword is written for it).
C6_SupportStatus ==
    [][(LinkStep /\ Matching(pkgset[si + 1], arch) # {}) =>
        LET sel == pkgset[si + 1]
            n == sel.name
        IN  /\ n \in DOMAIN supportstatus'
            /\ n \in DOMAIN supportstatus_override =>
                  supportstatus'[n] = supportstatus_override[n]
            /\ n \notin DOMAIN supportstatus_override =>
                  /\ supportstatus'[n] = sel.supportstatus
                  /\ sel.supportstatus \in DeclaredStatuses(n)
                  /\ sel.supportstatus = None => support_keyword(supportstatus', n) = <<>>
                  /\ sel.supportstatus # None =>
                        support_keyword(supportstatus', n) = <<"support_", sel.supportstatus>>]_vars

\* "a" has the override's status although its set declares another, and "b"
\* has the status of its set.
C6_Witness ==
    /\ {"a", "b"} \subseteq DOMAIN supportstatus
    /\ "a" \in DOMAIN supportstatus_override
    /\ supportstatus["a"] = supportstatus_override["a"]
    /\ DeclaredStatuses("a") = {"l2"}
    /\ supportstatus["b"] = "l2"

SourceRequested == "source" \in DOMAIN yml /\ yml.source \in {"split", "include"}

SourceTree == IF yml.source = "split" THEN "product-Source" ELSE maindir

\* The pool's source packages at exactly the referenced version and release.
SourceMatches(ref) ==
    { p \in Range(pool) : /\ p.arch = ref.arch
                          /\ p.name = ref.name
                          /\ p.version = ref.version
                          /\ p.release = ref.release }

\* The resolved Package names a source package that is not in the pool.
SourceMissing(rpm) ==
    rpm.sourcerpm # <<>> /\ SourceMatches(rpm.sourcerpm[1]) = {}

\* C7: with source split or include, each resolved Package that references a
\* source package has it linked into the source tree at exactly the referenced
\* version-release, or else the missing flag is set and reported while the
\* binary Package stays linked; no other source package is linked; and a set
\* flag aborts the run at the end of the loop unless ignore_missing_packages.
C7_SourceCompanion ==
    [][/\ (LinkStep /\ SourceRequested) =>
            LET rpms == Range(ResolveMain(pkgset[si + 1], arch))
            IN  /\ \A rpm \in rpms :
                      /\ <<maindir, rpm.arch, basename(rpm.location)>> \in DOMAIN tree'
                      /\ rpm.sourcerpm # <<>> =>
                            LET ref == rpm.sourcerpm[1]
                            IN  IF SourceMatches(ref) # {}
                                THEN \E p \in SourceMatches(ref) :
                                        <<SourceTree, "src", basename(p.location)>>
                                            \in DOMAIN tree'
                                ELSE /\ missing_package'
                                     /\ Warn(<<"source rpm package not found",
                                               ref.name, ref.version, rpm.name>>)
                                            \in Range(out')
                /\ \A path \in DOMAIN tree' \ DOMAIN tree :
                      path[2] = "src" =>
                          \E rpm \in rpms :
                              /\ rpm.sourcerpm # <<>>
                              /\ path = <<SourceTree, "src",
                                          RpmFile(rpm.sourcerpm[1].name,
                                                  rpm.sourcerpm[1].version,
                                                  rpm.sourcerpm[1].release, "src")>>
       /\ (pc = "link" /\ si = Len(pkgset) /\ unit' # unit
              /\ missing_package /\ ~IgnoreSet) =>
            (pc' = "died" /\ unit'[ai] = "ABORTED")]_vars

\* A run aborted for a missing source package alone, the binary being linked.
C7_Witness ==
    /\ SourceRequested
    /\ AtArch
    /\ unit[ai] = "ABORTED"
    /\ \A k \in 1..Len(pkgset) : ~Unresolvable(pkgset[k], arch)
    /\ \E c \in Range(linked) :
          /\ SourceMissing(c.entry)
          /\ OutName(c) \in DOMAIN tree
          /\ c.directory = maindir

\* C8: the missing flag of a link_rpms_to_tree run is set only by a Selector
\* that did not resolve or, with a source tree, by a resolved Package whose
\* source package is not in the pool; never by an absent debug package.
C8_DebugBestEffort ==
    (AtArch /\ (pc = "link" \/ unit[ai] = "ABORTED") /\ missing_package) =>
        \E k \in 1..si :
            \/ Unresolvable(pkgset[k], arch)
            \/ /\ SourceRequested
               /\ \E rpm \in Range(ResolveMain(pkgset[k], arch)) : SourceMissing(rpm)

DebugRequested == "debug" \in DOMAIN yml /\ yml.debug \in {"split", "include"}

DebugTree == IF yml.debug = "split" THEN "product-Debug" ELSE maindir

DebugNames == {"a-debuginfo", "a-debugsource", "b-debuginfo"}

\* A build with a debug tree finished without ignore_missing_packages although
\* no debug package of the linked Packages is in the pool.
C8_Witness ==
    /\ DebugRequested
    /\ ~IgnoreSet
    /\ pc = "done"
    /\ linked # <<>>
    /\ \A p \in Range(pool) : p.name \notin DebugNames

\* The link_entry_into_dir calls for the Packages the main set resolved to.
MainCalls ==
    { c \in Range(linked) : /\ c.directory = maindir
                            /\ c.entry.name \in {"a", "b", "c"}
                            /\ c.entry.arch # "src" }

DebugInfoMatches(rpm) ==
    { p \in Range(pool) : /\ p.arch = rpm.arch
                          /\ p.name = Cat(rpm.name, "-debuginfo")
                          /\ p.epoch = rpm.epoch
                          /\ p.version = rpm.version
                          /\ p.release = rpm.release }

DebugSourceMatches(rpm) ==
    { p \in Range(pool) : /\ rpm.sourcerpm # <<>>
                          /\ p.arch = rpm.arch
                          /\ p.name = Cat(rpm.sourcerpm[1].name, "-debugsource")
                          /\ p.version = rpm.sourcerpm[1].version
                          /\ p.release = rpm.sourcerpm[1].release }

InDebugTree(p) == <<DebugTree, p.arch, basename(p.location)>> \in DOMAIN tree

\* C9 as stated: with a debug tree, a debuginfo package of the pool that
\* matches a linked Package's name and EVR is in the debug tree.
C9_EveryDebugInfoLinked ==
    DebugRequested =>
        \A c \in MainCalls : \A p \in DebugInfoMatches(c.entry) : InDebugTree(p)

\* C9, amended: with a debug tree, for every resolved Package that names a
\* source package the matching debuginfo and debugsource packages of the pool
\* are in the debug tree; for a Package that names none a warning is printed.
C9_DebugCompanions ==
    DebugRequested =>
        \A c \in MainCalls :
            IF c.entry.sourcerpm # <<>>
            THEN /\ \A p \in DebugInfoMatches(c.entry) : InDebugTree(p)
                 /\ \A p \in DebugSourceMatches(c.entry) : InDebugTree(p)
            ELSE InOut(Warn(<<"package does not have a source rpm", c.entry.name>>))

\* A Package with a source reference whose debuginfo package was linked.
C9_Witness ==
    /\ DebugRequested
    /\ \E c \in MainCalls :
          /\ c.entry.sourcerpm # <<>>
          /\ DebugInfoMatches(c.entry) # {}
          /\ \A p \in DebugInfoMatches(c.entry) : InDebugTree(p)

EntryName(e) == IF "name" \in DOMAIN e THEN e.name ELSE "main"

Operands(e) == UNION { Range(e[op]) : op \in {"add", "sub", "intersect"} \cap DOMAIN e }

\* The names declared by the entries before the i-th.
DeclaredBefore(i) == { EntryName(yml.packagesets[j]) : j \in 1..(i - 1) }

\* Some entry has an operand that no earlier entry declared.
UndeclaredOperand ==
    /\ "packagesets" \in DOMAIN yml
    /\ \E i \in 1..Len(yml.packagesets) :
          \E o \in Operands(yml.packagesets[i]) : o \notin DeclaredBefore(i)

\* Some entry that passes its filters for the architecture has an operand that
\* is its own name or that no earlier entry declared.
UndeclaredActiveOperand(a) ==
    /\ "packagesets" \in DOMAIN yml
    /\ \E i \in 1..Len(yml.packagesets) :
          LET e == yml.packagesets[i]
          IN  /\ ~FlavorSkips(e, flavor)
              /\ ~ArchSkips(e, a)
              /\ \E o \in Operands(e) : o = EntryName(e) \/ o \notin DeclaredBefore(i)

\* No packagesets entry, and no key of the old format, declares the set.
DeclaredNowhere(setname) ==
    IF "packagesets" \in DOMAIN yml
    THEN setname \notin { EntryName(e) : e \in Range(yml.packagesets) }
    ELSE \/ setname \notin {"main", "unpack"}
         \/ setname = "main" /\ "packages" \notin DOMAIN yml
         \/ setname = "unpack" /\ "unpack_packages" \notin DOMAIN yml

\* As DeclaredNowhere, but "unpack" always exists in the old format.
NotDefined(setname) ==
    IF "packagesets" \in DOMAIN yml
    THEN setname \notin { EntryName(e) : e \in Range(yml.packagesets) }
    ELSE \/ setname \notin {"main", "unpack"}
         \/ setname = "main" /\ "packages" \notin DOMAIN yml

\* The link phase is over: the unpack calls are running or have run.
UnpackPhase ==
    /\ pc \in {"unpack", "report", "done", "died"}
    /\ \A i \in DOMAIN unit : unit[i] = "COMPLETE"

\* create_package_set has returned the j-th unpack set for architecture i.
UnpackEvaluated(i, j) == UnpackPhase /\ (i < ai \/ (i = ai /\ j <= ui))

\* C10 as stated: no package set is evaluated when an operand names a set no
\* earlier entry declared, or when the requested set is declared nowhere.
C10_UnknownSetStops ==
    /\ \A i \in DOMAIN unit :
          unit[i] # "PENDING" => ~UndeclaredOperand /\ ~DeclaredNowhere("main")
    /\ \A i \in DOMAIN unit, j \in 1..Len(UnpackNames) :
          UnpackEvaluated(i, j) => ~UndeclaredOperand /\ ~DeclaredNowhere(UnpackNames[j])

\* C10, amended: no package set is evaluated for an architecture when an entry
\* that passes its flavors and architectures filters has an operand that is
\* its own name or that no earlier entry declared, or when no entry declares
\* the requested set (in the old format: main without a packages key, or a
\* name other than main and unpack); and the run that stops there has linked
\* nothing for that architecture.
C10_UnknownActiveSetStops ==
    /\ \A i \in DOMAIN unit :
          unit[i] # "PENDING" =>
              ~UndeclaredActiveOperand(ArchAt(i)) /\ ~NotDefined("main")
    /\ \A i \in DOMAIN unit, j \in 1..Len(UnpackNames) :
          UnpackEvaluated(i, j) =>
              ~UndeclaredActiveOperand(ArchAt(i)) /\ ~NotDefined(UnpackNames[j])
    /\ (pc = "died" /\ AtArch /\ unit[ai] = "PENDING") =>
          \A c \in Range(linked) : c.entry.arch # arch

\* The second architecture stopped at an operand that was never declared, in
\* an entry the first architecture skipped.
C10_Witness ==
    /\ pc = "died"
    /\ out # <<>>
    /\ out[Len(out)] = Die(<<"package set does not exist", "nosuch">>)
    /\ unit = <<"COMPLETE", "PENDING">>
    /\ linked # <<>>

\* The entry passes its flavors and architectures filters.
Active(e, a) == ~FlavorSkips(e, flavor) /\ ~ArchSkips(e, a)

\* Two entries of the packagesets list have the same name.
DuplicateName ==
    /\ "packagesets" \in DOMAIN yml
    /\ \E i, j \in 1..Len(yml.packagesets) :
          i < j /\ EntryName(yml.packagesets[i]) = EntryName(yml.packagesets[j])

\* Before the j-th entry a PkgSet object exists for the name: an earlier entry
\* of that name passed its filters, or was skipped and then named as an operand
\* by an entry in between that passed its filters.
Instantiated(n, j, a) ==
    \E i \in 1..(j - 1) :
        /\ EntryName(yml.packagesets[i]) = n
        /\ \/ Active(yml.packagesets[i], a)
           \/ \E k \in (i + 1)..(j - 1) :
                 /\ Active(yml.packagesets[k], a)
                 /\ n \in Operands(yml.packagesets[k])

\* The name is declared again after a PkgSet object exists for it.
ActiveDuplicateOf(n, a) ==
    /\ "packagesets" \in DOMAIN yml
    /\ \E j \in 1..Len(yml.packagesets) :
          EntryName(yml.packagesets[j]) = n /\ Instantiated(n, j, a)

ActiveDuplicate(a) ==
    \E n \in {"main", "extra"} : ActiveDuplicateOf(n, a)

AlreadyDefined(n) == Die(<<"package set is already defined", n>>)

\* C11 as stated: with two entries of the same name in the packagesets list no
\* package set is evaluated, for any architecture.
C11_DuplicateNameStops ==
    DuplicateName => \A i \in DOMAIN unit : unit[i] = "PENDING"

\* C11, amended: the evaluation for an architecture stops when a name is
\* declared again after an entry of that name passed its flavors and
\* architectures filters (or was skipped and then instantiated as an operand);
\* and it stops with 'already defined' only then.
C11_ActiveDuplicateStops ==
    /\ \A i \in DOMAIN unit : unit[i] # "PENDING" => ~ActiveDuplicate(ArchAt(i))
    /\ \A i \in DOMAIN unit, j \in 1..Len(UnpackNames) :
          UnpackEvaluated(i, j) => ~ActiveDuplicate(ArchAt(i))
    /\ \A n \in {"main", "extra"} :
          (pc = "died" /\ AtArch /\ out[Len(out)] = AlreadyDefined(n)) =>
              ActiveDuplicateOf(n, arch)

\* The first architecture was linked with the first entry of the name skipped;
\* the second stopped at the second entry of the name.
C11_Witness ==
    /\ pc = "died"
    /\ AtArch
    /\ out[Len(out)] = AlreadyDefined("main")
    /\ unit = <<"COMPLETE", "PENDING">>
    /\ linked # <<>>

\* C12: in a finished build the architectures create_tree iterated are the
\* ones the product file declared (after the flavor override), and the main
\* set was evaluated and resolved for each of them.
C12_EveryRequestedArchProcessed ==
    pc = "done" =>
        /\ yml.architectures = requested_archs
        /\ \A k \in 1..Len(requested_archs) :
              \E i \in DOMAIN unit :
                  ArchAt(i) = requested_archs[k] /\ unit[i] = "COMPLETE"

RECURSIVE LinkAll(_, _, _)
\* The whole loop "for sel in main_pkgset" for one architecture.
LinkAll(st, sels, a) ==
    IF sels = <<>> THEN st ELSE LinkAll(LinkSel(st, Head(sels), a), Tail(sels), a)

RECURSIVE LinkArchs(_, _)
\* The whole loop "for arch in yml['architectures']: link_rpms_to_tree(...)",
\* from the architecture at index i on, for a run that does not stop.
LinkArchs(st, i) ==
    IF i > Len(yml.architectures) THEN st
    ELSE LinkArchs(LinkAll([st EXCEPT !.missing_package = FALSE],
                           Iter(MainSetOf(i).set), ArchAt(i)), i + 1)

\* What a finished run leaves behind, as a function of the product file, the
\* flavor, the pool and the override table alone.
Outcome ==
    LET st == LinkArchs([tree |-> <<>>, tree_report |-> <<>>, supportstatus |-> <<>>,
                         missing_package |-> FALSE, out |-> <<>>, linked |-> <<>>], 1)
        dirs == {maindir} \cup ({sourcedir, debugdir} \ {None})
    IN  [paths |-> DOMAIN st.tree,
         tree_report |-> st.tree_report,
         supportstatus |-> st.supportstatus,
         reports |-> [d \in dirs |-> write_report_file(st.tree_report, d)]]

ReportDirs == {maindir} \cup ({sourcedir, debugdir} \ {None})

\* The output paths a report lists, in its order.
ReportPaths(d) == [k \in 1..Len(reports[d]) |-> reports[d][k].fn]

\* C14: a finished build has one report per output sub-tree; the report of a
\* sub-tree lists exactly the manifest entries whose output path is in that
\* sub-tree's directory, each with the Package the manifest holds for it; every
\* manifest entry is in exactly one report, once; and each report is in the
\* order of its output paths.
C14_ReportPerSubtree ==
    pc = "done" =>
        /\ DOMAIN reports = ReportDirs
        /\ \A d \in DOMAIN reports :
              /\ Range(ReportPaths(d)) = { fn \in DOMAIN tree_report : fn[1] = d }
              /\ \A k \in 1..Len(reports[d]) :
                    reports[d][k].binary = tree_report[reports[d][k].fn]
              /\ \A j, k \in 1..Len(reports[d]) :
                    j < k => PathLess(reports[d][j].fn, reports[d][k].fn)
        /\ \A fn \in DOMAIN tree_report :
              Cardinality({ dk \in UNION { { <<d, k>> : k \in 1..Len(reports[d]) } :
                                            d \in DOMAIN reports } :
                              reports[dk[1]][dk[2]].fn = fn }) = 1

\* Split source and debug trees, with a report of two entries for the debug
\* tree and one entry each for the main and the source tree.
C14_Witness ==
    /\ pc = "done"
    /\ DOMAIN reports = {"product", "product-Source", "product-Debug"}
    /\ Len(reports["product"]) = 1
    /\ Len(reports["product-Source"]) = 1
    /\ Len(reports["product-Debug"]) = 2

\* The changes of a unit of work that the state machine allows.  A main set
\* without Selectors completes without a pass of the loop.
UnitStep(from, to) ==
    \/ from = "PENDING" /\ to = "SET_EVALUATED"
    \/ from = "SET_EVALUATED" /\ to = "RESOLVING"
    \/ from = "RESOLVING" /\ to \in {"ABORTED", "COMPLETE"}
    \/ from = "SET_EVALUATED" /\ to = "COMPLETE" /\ pkgset = <<>>

\* The indices of the architectures create_tree iterates over here.
UnitIndices == 1..2

\* The run is over, every unit is ABORTED or COMPLETE, or is still PENDING
\* in a run that stopped before or in its set evaluation.
Settled ==
    /\ pc \in {"done", "died"}
    /\ \A i \in DOMAIN unit :
          \/ unit[i] \in {"ABORTED", "COMPLETE"}
          \/ unit[i] = "PENDING" /\ pc = "died"

DoesNotExist(n) == Die(<<"package set does not exist", n>>)

\* Every operand of an entry that passes its filters is the entry's own name
\* or a name an earlier entry declared.
OnlySelfReferences(a) ==
    \A i \in 1..Len(yml.packagesets) :
        LET e == yml.packagesets[i]
        IN  Active(e, a) =>
                \A o \in Operands(e) : o = EntryName(e) \/ o \in DeclaredBefore(i)

\* An entry that passes its filters names its own set as an operand.
SelfOperand(a) ==
    /\ "packagesets" \in DOMAIN yml
    /\ \E e \in Range(yml.packagesets) : Active(e, a) /\ EntryName(e) \in Operands(e)

\* The list declares "extra" in an entry that is skipped and then "main" in an
\* entry that passes its filters and has "extra" as its only operand.
PlaceholderCase(a) ==
    /\ "packagesets" \in DOMAIN yml
    /\ Len(yml.packagesets) = 2
    /\ EntryName(yml.packagesets[1]) = "extra"
    /\ ~Active(yml.packagesets[1], a)
    /\ EntryName(yml.packagesets[2]) = "main"
    /\ Active(yml.packagesets[2], a)
    /\ Operands(yml.packagesets[2]) = {"extra"}

\* The names of the entry's own package specs.
OwnNames(e) ==
    IF "packages" \in DOMAIN e THEN { e.packages[k].name : k \in 1..Len(e.packages) }
    ELSE {}

\* The link run of the current architecture has its main set.
MainEvaluated ==
    AtArch /\ pc = "link" /\ unit[ai] \in {"SET_EVALUATED", "RESOLVING"}

\* C16 as stated: an operand that is the entry's own name raises no
\* configuration error; 'does not exist' is raised only for a name that is
\* neither the entry's own nor declared by an earlier entry.
C16_SelfReferenceAccepted ==
    \A n \in {"main", "extra", "nosuch"} :
        (pc = "died" /\ AtArch /\ "packagesets" \in DOMAIN yml
             /\ out[Len(out)] = DoesNotExist(n)) => ~OnlySelfReferences(arch)

\* C16, amended: an operand that names a set declared by an earlier entry that
\* was skipped by its filters raises no error and is an empty placeholder (add
\* and sub leave the entry's own Selectors, intersect leaves none); an operand
\* that is the entry's own name, or a name no earlier entry declared, stops the
\* evaluation.
C16_SkippedOperandIsPlaceholder ==
    /\ (MainEvaluated /\ PlaceholderCase(arch)) =>
          { pkgset[k].name : k \in 1..Len(pkgset) } =
              IF "intersect" \in DOMAIN yml.packagesets[2] THEN {}
              ELSE OwnNames(yml.packagesets[2])
    /\ \A i \in DOMAIN unit :
          unit[i] # "PENDING" =>
              ~SelfOperand(ArchAt(i)) /\ ~UndeclaredActiveOperand(ArchAt(i))
    /\ \A i \in DOMAIN unit :
          (PlaceholderCase(ArchAt(i)) /\ (i < ai \/ pc \in {"unpack", "report", "done"}))
              => unit[i] = "COMPLETE"

\* The main set of the current architecture was emptied by the intersection
\* with a set whose entry was skipped.
C16_Witness ==
    /\ MainEvaluated
    /\ PlaceholderCase(arch)
    /\ "intersect" \in DOMAIN yml.packagesets[2]
    /\ OwnNames(yml.packagesets[2]) # {}
    /\ pkgset = <<>>

\* The step that runs the loop body for pkgset[si + 1] in unpack_meta_rpms.
UnpackStep == pc = "unpack" /\ si' = si + 1

\* The Packages passed to unpack_one_meta_rpm by this step.
UnpackedByStep == SubSeq(unpacked', Len(unpacked) + 1, Len(unpacked'))

\* C17 as stated: an unpack Selector resolves to the Packages the link loop
\* resolves it to under the same build options.
C17_UnpackResolvesAsLink ==
    [][UnpackStep => UnpackedByStep = ResolveMain(pkgset[si + 1], arch)]_vars

\* C17, amended: an unpack Selector resolves to at most one Package, the
\* newest that satisfies it, whatever take_all_available_versions says; this is
\* what the link loop resolves it to only without that option.  A Selector
\* that does not resolve is reported and sets the missing flag, and the run
\* aborts for it only at the end of the unpack loop.
C17_UnpackResolvesBest ==
    [][/\ UnpackStep =>
            LET sel == pkgset[si + 1]
                got == UnpackedByStep
            IN  /\ Len(got) <= 1
                /\ Matching(sel, arch) # {} =>
                      /\ Len(got) = 1
                      /\ got[1] \in Matching(sel, arch)
                      /\ \A p \in Matching(sel, arch) : ~Newer(p, got[1])
                      /\ got[1] = ResolveMain(sel, arch)[1]
                /\ singlemode => got = ResolveMain(sel, arch)
                /\ Matching(sel, arch) = {} =>
                      /\ got = <<>>
                      /\ missing_package'
                      /\ out' = Append(out, Warn(<<"package not found", sel.name>>))
                      /\ pc' = "unpack"
       /\ (pc = "unpack" /\ pc' = "died" /\ out'[Len(out')] = AbortMsg) =>
            (si = Len(pkgset) /\ ui = Len(UnpackNames) /\ missing_package)]_vars

\* With take_all_available_versions "a" 2-1 and "a" 1-1 were both linked, and
\* of the two only "a" 2-1 was unpacked.
C17_Witness ==
    /\ AtArch
    /\ "take_all_available_versions" \in yml.build_options
    /\ \E c \in Range(linked) : c.entry.name = "a" /\ c.entry.version = 1
    /\ \E c \in Range(linked) : c.entry.name = "a" /\ c.entry.version = 2
    /\ \E p \in Range(unpacked) : p.name = "a" /\ p.version = 2
    /\ ~ \E p \in Range(unpacked) : p.name = "a" /\ p.version = 1
    /\ pc = "done"

\* The keys of a packagesets entry that create_package_set reads.
EntryKeys ==
    {"name", "flavors", "architectures", "supportstatus", "packages",
     "add", "sub", "intersect"}

\* An entry that passes its filters names an operation other than add, sub
\* and intersect.
UnknownOperation(a) ==
    /\ "packagesets" \in DOMAIN yml
    /\ \E e \in Range(yml.packagesets) : Active(e, a) /\ ~(DOMAIN e \subseteq EntryKeys)

\* C18: no package set is evaluated from a list in which an entry that passes
\* its filters names an operation other than add, sub and intersect.
C18_UnknownOperationRejected ==
    \A i \in DOMAIN unit : unit[i] # "PENDING" => ~UnknownOperation(ArchAt(i))

\* Every link_rpms_to_tree call has returned.
LinkPhaseOver ==
    /\ pc \in {"unpack", "report", "done", "died"}
    /\ unit # <<>>
    /\ \A i \in DOMAIN unit : unit[i] = "COMPLETE"

\* The Selectors of architecture i's main set that have the name and resolve.
Resolving(n, i) ==
    { sel \in Range(Iter(MainSetOf(i).set)) :
        sel.name = n /\ Matching(sel, ArchAt(i)) # {} }

\* The last architecture, in the order of the list, with such a Selector.
LastResolving(n) ==
    CHOOSE i \in DOMAIN unit :
        /\ Resolving(n, i) # {}
        /\ \A j \in DOMAIN unit : j > i => Resolving(n, j) = {}

\* C19: a name with an override has the override's status at every moment it
\* has one; after the link phase a name has a status entry exactly if a
\* Selector of that name resolved for some architecture, and without an
\* override the entry is the status of the Selector that resolved it for the
\* last such architecture in the order of the list, "None" included.
C19_LastWriterWins ==
    /\ \A n \in DOMAIN supportstatus \cap DOMAIN supportstatus_override :
          supportstatus[n] = supportstatus_override[n]
    /\ LinkPhaseOver =>
          \A n \in {"a", "b", "c"} :
              IF \A i \in DOMAIN unit : Resolving(n, i) = {}
              THEN n \notin DOMAIN supportstatus
              ELSE /\ n \in DOMAIN supportstatus
                   /\ n \notin DOMAIN supportstatus_override =>
                         \A sel \in Resolving(n, LastResolving(n)) :
                             supportstatus[n] = sel.supportstatus

\* "a" resolved for x86_64 from a set with status l2 and then for aarch64
\* from a set without one, and has no status after the link phase.
C19_Witness ==
    /\ LinkPhaseOver
    /\ Len(yml.architectures) = 2
    /\ \E sel \in Resolving("a", 1) : sel.supportstatus = "l2"
    /\ \E sel \in Resolving("a", 2) : sel.supportstatus = None
    /\ "a" \in DOMAIN supportstatus
    /\ supportstatus["a"] = None

\* The list ends with an entry for "main" that passes its filters; the entries
\* before it have names of their own and no operands, and declare every
\* operand of the last.
AlgebraCase(a) ==
    /\ "packagesets" \in DOMAIN yml
    /\ Len(yml.packagesets) >= 2
    /\ LET l == yml.packagesets
           m == l[Len(l)]
       IN  /\ EntryName(m) = "main"
           /\ Active(m, a)
           /\ Operands(m) \subseteq DeclaredBefore(Len(l))
           /\ \A i \in 1..(Len(l) - 1) :
                 /\ Operands(l[i]) = {}
                 /\ EntryName(l[i]) # "main"
                 /\ \A j \in 1..(Len(l) - 1) : EntryName(l[i]) = EntryName(l[j]) => i = j

MainEntry == yml.packagesets[Len(yml.packagesets)]

EntryNamed(o) == CHOOSE e \in Range(yml.packagesets) : EntryName(e) = o

StatusOf(e) == IF "supportstatus" \in DOMAIN e THEN e.supportstatus ELSE None

\* The Selector an entry's own package specs give the name.
OwnSel(e, n) ==
    LET k == CHOOSE k \in 1..Len(e.packages) :
                 /\ e.packages[k].name = n
                 /\ \A j \in (k + 1)..Len(e.packages) : e.packages[j].name # n
    IN  PkgSelect(e.packages[k], StatusOf(e))

\* The names in the set an operand stands for: none when its entry was skipped.
NamesOf(o, a) == IF Active(EntryNamed(o), a) THEN OwnNames(EntryNamed(o)) ELSE {}

OpList(e, op) == IF op \in DOMAIN e THEN e[op] ELSE <<>>

OpNames(e, op, a) == UNION { NamesOf(o, a) : o \in Range(OpList(e, op)) }

\* Own specs, then every union, then every subtraction, then every intersection.
ExpectedNames(a) ==
    { n \in (OwnNames(MainEntry) \cup OpNames(MainEntry, "add", a))
                \ OpNames(MainEntry, "sub", a) :
        \A o \in Range(OpList(MainEntry, "intersect")) : n \in NamesOf(o, a) }

\* The entry's own Selector, else that of the first listed union operand that
\* has the name.
ExpectedSel(n, a) ==
    IF n \in OwnNames(MainEntry) THEN OwnSel(MainEntry, n)
    ELSE LET adds == OpList(MainEntry, "add")
             k == CHOOSE k \in 1..Len(adds) :
                      /\ n \in NamesOf(adds[k], a)
                      /\ \A j \in 1..(k - 1) : n \notin NamesOf(adds[j], a)
         IN  OwnSel(EntryNamed(adds[k]), n)

\* The list has entries for "main", none of which passes its filters.
MainSkipped(a) ==
    /\ "packagesets" \in DOMAIN yml
    /\ \E e \in Range(yml.packagesets) : EntryName(e) = "main"
    /\ \A e \in Range(yml.packagesets) : EntryName(e) = "main" => ~Active(e, a)

\* The unpack set being iterated is the one named n.
UnpackSetIs(n) ==
    AtArch /\ pc = "unpack" /\ ui >= 1 /\ UnpackNames[ui] = n

\* C20: the set an entry yields is its own package specs, united with its add
\* operands in listed order, less its sub operands, cut to its intersect
\* operands, however the entry is written; the operand sets are what their
\* own entries declare, before and after; an entry skipped by its filters
\* leaves its name an empty set and raises no error for its operands.
C20_EvaluationOrder ==
    /\ (MainEvaluated /\ AlgebraCase(arch)) =>
          /\ Range(pkgset) = { ExpectedSel(n, arch) : n \in ExpectedNames(arch) }
          /\ Len(pkgset) = Cardinality(ExpectedNames(arch))
    /\ \A o \in {"extra", "other"} :
          (UnpackSetIs(o) /\ AlgebraCase(arch) /\ o \in DeclaredBefore(Len(yml.packagesets))) =>
              Range(pkgset) = { OwnSel(EntryNamed(o), n) : n \in NamesOf(o, arch) }
    /\ (MainEvaluated /\ MainSkipped(arch)) => pkgset = <<>>
    /\ \A n \in {"main", "extra", "other", "nosuch"} :
          (pc = "died" /\ AtArch /\ out[Len(out)] = DoesNotExist(n)) =>
              UndeclaredActiveOperand(arch)

\* An entry with one union and one subtraction, where the subtraction took
\* away a name of the entry's own and the name the union had brought.
C20_Witness ==
    /\ MainEvaluated
    /\ AlgebraCase(arch)
    /\ OpList(MainEntry, "add") = <<"other">>
    /\ OpList(MainEntry, "sub") = <<"extra">>
    /\ NamesOf("other", arch) = {"a", "c"}
    /\ NamesOf("extra", arch) = {"b", "c"}
    /\ OwnNames(MainEntry) = {"a", "b"}
    /\ { pkgset[k].name : k \in 1..Len(pkgset) } = {"a"}

====
